---- MODULE Spec2Model ----
(***************************************************************************)
(* Idempotent money-transfer endpoint: the Idempotency middleware (Redis   *)
(* response cache and SETNX lock) in front of TransferHandler (Postgres    *)
(* ledger transaction with a UNIQUE idempotency_key).                      *)
(*                                                                         *)
(* Money is counted in thousandths of a currency unit, so that a float64   *)
(* amount with three decimals (0.005) and the DECIMAL(10, 2) columns,      *)
(* which round what is stored in them to a whole cent, are both integers.  *)
(***************************************************************************)
EXTENDS Integers, FiniteSets, Sequences, TLC

\* ------------------------------------------------------------- bounds
\* Number of requests (invocations of the endpoint) in a behaviour.
NumReq == 2
\* Number of goroutines the stress tester launches against one key.
StressN == 3
\* Opening balance of every account row, in cents.
InitCents == 2

\* One cent, the resolution of DECIMAL(10, 2), in thousandths.
Cent == 10
\* Rows of the accounts table (created out of band) and the ids a request may name.
Accounts == {1, 2}
Keys == {"k1", "k2"}
NoKey == ""

HalfCent == Cent \div 2
Funds == InitCents * Cent
Amounts == {-Cent, 0, HalfCent, Cent, Funds, Funds + Cent}

VARIABLES
    useMiddleware,  \* is middleware.Idempotency wrapped around the handler
    chaosEnabled,   \* os.Getenv("CHAOS_MODE") == "true"
    req,            \* req[p]: the request invocation p serves
    pc,             \* pc[p]: where invocation p stands
    resp,           \* resp[p]: what the client of p received
    balance,        \* accounts.balance, committed
    transactions,   \* rows of the transactions table, committed
    txWrites,       \* txWrites[p]: account rows written (and locked) by p's open transaction
    txRows,         \* txRows[p]: transactions rows inserted by p's open transaction
    lock,           \* lock[k]: invocation whose SETNX created "lock:"+k, 0 when absent
    cache           \* cache[k]: the entry "idempotency:"+k

vars == <<useMiddleware, chaosEnabled, req, pc, resp, balance, transactions,
          txWrites, txRows, lock, cache>>

\* The invocations of a behaviour.
Procs == DOMAIN req

\* ------------------------------------------------------------ requests
\* models.TransferRequest plus the headers the code reads.  valid = FALSE is a
\* body json.Decode rejects.
Request(k, v, f, t, a, c) ==
    [key |-> k, valid |-> v, from_id |-> f, to_id |-> t, amount |-> a, chaos |-> c]

\* The payloads of the bounded runs: every amount on the pair (1, 2), every other
\* pair of ids with the amount that empties the sender.
Payloads ==
    {<<1, 2, a>> : a \in Amounts}
        \cup {<<2, 1, Funds>>, <<1, 1, Funds>>, <<1, 3, Funds>>, <<3, 1, Funds>>}

ReqPool ==
    {Request(k, TRUE, pl[1], pl[2], pl[3], FALSE) : k \in Keys, pl \in Payloads}
        \cup {Request(k, TRUE, 1, 2, Funds, TRUE) : k \in Keys}
        \cup {Request(k, FALSE, 0, 0, 0, FALSE) : k \in Keys \cup {NoKey}}
        \cup {Request(NoKey, TRUE, 1, 2, Funds, FALSE)}

\* ----------------------------------------------------------- responses
Response(s, h, d, m, a) ==
    [status |-> s, hit |-> h, dbhit |-> d, msg |-> m, amount |-> a]

NoResponse == Response(0, FALSE, FALSE, "", 0)
\* net/http recovers the handler's panic and closes the connection.
Dropped == Response(0, FALSE, FALSE, "connection closed", 0)
TextError(s, m) == Response(s, FALSE, FALSE, m, 0)

SuccessResponse(a) == Response(200, FALSE, FALSE, "Transfer Complete", a)
\* The recovery branch answering like a fresh transfer, without X-Db-Hit.
RecoveredUnmarked(a) == Response(200, FALSE, FALSE, "Transfer Complete", a)
RecoveredResponse(a) == Response(200, FALSE, TRUE, "Transfer Complete (Recovered)", a)
ConflictResponse == Response(409, FALSE, FALSE, "conflict", 0)

NoEntry == [present |-> FALSE, msg |-> "", amount |-> 0]
Body(r) == [present |-> TRUE, msg |-> r.msg, amount |-> r.amount]
\* The cache-hit branch without its X-Idempotency-Hit header.
CacheHitUnmarked(e) == Response(200, FALSE, FALSE, e.msg, e.amount)
CacheHitResponse(e) == Response(200, TRUE, FALSE, e.msg, e.amount)

\* ------------------------------------------------------------- storage
\* Assignment to a DECIMAL(10, 2) column rounds to a whole cent, half away from zero.
RoundCents(x) ==
    IF x >= 0 THEN ((x + HalfCent) \div Cent) * Cent
    ELSE -((((-x) + HalfCent) \div Cent) * Cent)

\* The open transaction, other than p's own, that holds the row lock of account a.
RowLockedByOther(p, a) == \E q \in Procs \ {p} : \E w \in txWrites[q] : w.id = a

\* The value of row a that p's statement sees: its own write, else the committed one.
RowValue(p, a) ==
    IF \E w \in txWrites[p] : w.id = a
    THEN (CHOOSE w \in txWrites[p] : w.id = a).balance
    ELSE balance[a]

WriteRow(p, a, v) == {w \in txWrites[p] : w.id # a} \cup {[id |-> a, balance |-> v]}

\* The debit without its balance >= $1 condition: a plain read-free subtraction.
DebitMatchesAnyBalance(p) == req[p].from_id \in Accounts

\* UPDATE accounts SET balance = balance - $1 WHERE id = $2 AND balance >= $1
DebitMatches(p) ==
    /\ req[p].from_id \in Accounts
    /\ RowValue(p, req[p].from_id) >= req[p].amount

\* A transactions table without the UNIQUE constraint: no insert is refused.
UniqueViolationNever(k) == FALSE

\* idempotency_key VARCHAR(255) UNIQUE: a committed row with the key exists.
UniqueViolation(k) == \E r \in transactions : r.key = k

\* An uncommitted insert of the same key by another transaction: the insert waits.
KeyPendingByOther(p, k) == \E q \in Procs \ {p} : \E r \in txRows[q] : r.key = k

NewRow(p) ==
    [key |-> req[p].key, from_id |-> req[p].from_id, to_id |-> req[p].to_id,
     amount |-> RoundCents(req[p].amount), by |-> p]

\* The balances after p's transaction commits.
Committed(p) ==
    [a \in Accounts |-> IF \E w \in txWrites[p] : w.id = a THEN RowValue(p, a) ELSE balance[a]]

\* ---------------------------------------------------------------- init
InitStores ==
    /\ pc = [p \in Procs |-> IF useMiddleware THEN "mw" ELSE "handler"]
    /\ resp = [p \in Procs |-> NoResponse]
    /\ balance = [a \in Accounts |-> Funds]
    /\ transactions = {}
    /\ txWrites = [p \in Procs |-> {}]
    /\ txRows = [p \in Procs |-> {}]
    /\ lock = [k \in Keys |-> 0]
    /\ cache = [k \in Keys |-> NoEntry]

\* main.go routes /transfer to the bare handler; the middleware is the wrapped variant.
\* Keys are interchangeable, so the first request that has one has "k1"; CHAOS_MODE is
\* read only for a request with the chaos header, so it is on only when one is sent.
Init ==
    /\ useMiddleware \in BOOLEAN
    /\ chaosEnabled \in BOOLEAN
    /\ req \in [1..NumReq -> ReqPool]
    /\ req[1].key # "k2"
    /\ chaosEnabled => \E p \in Procs : req[p].chaos
    /\ InitStores

\* The stress tester against the wrapped handler: one key, one payload the sender
\* can pay, no chaos header.
StressPayloads == {pl \in Payloads : pl[1] \in Accounts /\ 0 < pl[3] /\ pl[3] <= Funds}

InitStress ==
    /\ useMiddleware = TRUE
    /\ chaosEnabled = FALSE
    /\ \E pl \in StressPayloads :
         req = [p \in 1..StressN |-> Request("k1", TRUE, pl[1], pl[2], pl[3], FALSE)]
    /\ InitStores

\* The server as main.go builds it: the bare handler on /transfer.
InitWired ==
    /\ Init
    /\ useMiddleware = FALSE

\* ---------------------------------------------------- handler plumbing
\* The invocation runs inside the middleware's lock (idempotency.go:89-122).
HasLock(p) == useMiddleware /\ req[p].key # NoKey

\* The invocation is between its successful SetNX and its deferred Del.
InsideLock(p) ==
    /\ HasLock(p)
    /\ pc[p] \in {"handler", "debit", "credit", "insert", "commit", "cacheSet", "release"}

\* The cache test with its upper bound at the server errors: 4xx counts as success.
IsSuccessStatusBelow500(s) == s >= 200 /\ s < 500

\* if wrapper.statusCode >= 200 && wrapper.statusCode < 300
IsSuccessStatus(s) == s >= 200 /\ s < 300

\* The middleware going from the handler straight to its release, the cache write left
\* for later.
ReturnSkipsCache(p, r) ==
    /\ resp' = [resp EXCEPT ![p] = r]
    /\ pc' = [pc EXCEPT ![p] = IF HasLock(p) THEN "release" ELSE "done"]

\* The handler has written response r and returns to its caller.
Return(p, r) ==
    /\ resp' = [resp EXCEPT ![p] = r]
    /\ pc' = [pc EXCEPT ![p] =
                IF HasLock(p)
                THEN (IF IsSuccessStatus(r.status) THEN "cacheSet" ELSE "release")
                ELSE "done"]

\* The panic leaving the middleware without running a deferred call: a release written
\* as sequential code after ServeHTTP.
PanicSkipsRelease(p) ==
    /\ resp' = [resp EXCEPT ![p] = Dropped]
    /\ pc' = [pc EXCEPT ![p] = "done"]

\* panic("intentional chaos crash"): deferred calls run, nothing after ServeHTTP does.
Panic(p) ==
    /\ resp' = [resp EXCEPT ![p] = Dropped]
    /\ pc' = [pc EXCEPT ![p] = IF HasLock(p) THEN "release" ELSE "done"]

\* defer tx.Rollback()
Rollback(p) ==
    /\ txWrites' = [txWrites EXCEPT ![p] = {}]
    /\ txRows' = [txRows EXCEPT ![p] = {}]

\* http.Error(...) inside the transaction, then the deferred rollback.
Abort(p, s, m) ==
    /\ Return(p, TextError(s, m))
    /\ Rollback(p)
    /\ UNCHANGED <<balance, transactions>>

Config == <<useMiddleware, chaosEnabled, req>>
Redis == <<lock, cache>>
Ledger == <<balance, transactions, txWrites, txRows>>

\* ---------------------------------------------------------- middleware
\* idempotency.go:67-72: no Idempotency-Key header, the request goes straight on.
MwPassThrough(p) ==
    /\ useMiddleware /\ pc[p] = "mw" /\ req[p].key = NoKey
    /\ pc' = [pc EXCEPT ![p] = "handler"]
    /\ UNCHANGED <<Config, resp, Ledger, Redis>>

\* idempotency.go:79-87: rdb.Get; a hit answers from the cache.
MwCacheGet(p) ==
    /\ useMiddleware /\ pc[p] = "mw" /\ req[p].key # NoKey
    /\ IF cache[req[p].key].present
       THEN /\ resp' = [resp EXCEPT ![p] = CacheHitResponse(cache[req[p].key])]
            /\ pc' = [pc EXCEPT ![p] = "done"]
       ELSE /\ pc' = [pc EXCEPT ![p] = "setnx"]
            /\ UNCHANGED resp
    /\ UNCHANGED <<Config, Ledger, Redis>>

\* rdb.Get fails (err is not redis.Nil): err != nil, the same path as a miss.
MwCacheGetError(p) ==
    /\ useMiddleware /\ pc[p] = "mw" /\ req[p].key # NoKey
    /\ pc' = [pc EXCEPT ![p] = "setnx"]
    /\ UNCHANGED <<Config, resp, Ledger, Redis>>

\* SET in place of SETNX: the entry is written whether or not it exists.
SetNXAlways(k) == TRUE

\* SETNX creates the entry only when it is absent.
SetNXAcquires(k) == lock[k] = 0

\* idempotency.go:90-122: one SetNX; 409 when the entry exists, else into the handler.
MwSetNX(p) ==
    /\ pc[p] = "setnx"
    /\ IF SetNXAcquires(req[p].key)
       THEN /\ lock' = [lock EXCEPT ![req[p].key] = p]
            /\ pc' = [pc EXCEPT ![p] = "handler"]
            /\ UNCHANGED resp
       ELSE /\ resp' = [resp EXCEPT ![p] = ConflictResponse]
            /\ pc' = [pc EXCEPT ![p] = "done"]
            /\ UNCHANGED lock
    /\ UNCHANGED <<Config, Ledger, cache>>

\* idempotency.go:91-95: the SetNX call itself errors.
MwSetNXError(p) ==
    /\ pc[p] = "setnx"
    /\ resp' = [resp EXCEPT ![p] = TextError(500, "Internal server error")]
    /\ pc' = [pc EXCEPT ![p] = "done"]
    /\ UNCHANGED <<Config, Ledger, Redis>>

\* idempotency.go:125-131: rdb.Set of the captured body after a 2xx.
MwCacheSet(p) ==
    /\ pc[p] = "cacheSet"
    /\ cache' = [cache EXCEPT ![req[p].key] = Body(resp[p])]
    /\ pc' = [pc EXCEPT ![p] = "release"]
    /\ UNCHANGED <<Config, resp, Ledger, lock>>

\* rdb.Set fails: logged, nothing cached.
MwCacheSetError(p) ==
    /\ pc[p] = "cacheSet"
    /\ pc' = [pc EXCEPT ![p] = "release"]
    /\ UNCHANGED <<Config, resp, Ledger, Redis>>

\* idempotency.go:111-115: the deferred rdb.Del(lockKey).
MwRelease(p) ==
    /\ pc[p] = "release"
    /\ lock' = [lock EXCEPT ![req[p].key] = 0]
    /\ pc' = [pc EXCEPT ![p] = "done"]
    /\ UNCHANGED <<Config, resp, Ledger, cache>>

\* rdb.Del fails: logged, the entry stays until its TTL.
MwReleaseError(p) ==
    /\ pc[p] = "release"
    /\ pc' = [pc EXCEPT ![p] = "done"]
    /\ UNCHANGED <<Config, resp, Ledger, Redis>>

\* A SetNX without expiration: the entry stays until somebody deletes it.
LockNeverExpires(k) ==
    /\ FALSE
    /\ UNCHANGED vars

\* LockTimeout: Redis drops the lock entry.
LockExpire(k) ==
    /\ lock[k] # 0
    /\ lock' = [lock EXCEPT ![k] = 0]
    /\ UNCHANGED <<Config, pc, resp, Ledger, cache>>

\* LockTimeout sized as the code assumes: the entry runs out only after the invocation
\* that created it has left the middleware or died.
LockExpireIdle(k) ==
    /\ lock[k] # 0 /\ ~InsideLock(lock[k])
    /\ lock' = [lock EXCEPT ![k] = 0]
    /\ UNCHANGED <<Config, pc, resp, Ledger, cache>>

\* IdempotencyCacheTTL: Redis drops the cached response.
CacheExpire(k) ==
    /\ cache[k].present
    /\ cache' = [cache EXCEPT ![k] = NoEntry]
    /\ UNCHANGED <<Config, pc, resp, Ledger, lock>>

\* ------------------------------------------------------------- handler
\* part_000:18-28: the body does not decode, or the key header is empty.
HandlerReject(p) ==
    /\ pc[p] = "handler"
    /\ ~req[p].valid \/ req[p].key = NoKey
    /\ Return(p, TextError(400, IF ~req[p].valid THEN "Invalid Body"
                                ELSE "Missing Idempotency-Key header"))
    /\ UNCHANGED <<Config, Ledger, Redis>>

\* part_000:30-56: SELECT amount FROM transactions WHERE idempotency_key = $1, outside
\* any transaction; a row answers "recovered", no row goes on to db.Begin().
Probe(p) ==
    /\ pc[p] = "handler" /\ req[p].valid /\ req[p].key # NoKey
    /\ IF \E r \in transactions : r.key = req[p].key
       THEN \E r \in transactions :
              /\ r.key = req[p].key
              /\ Return(p, RecoveredResponse(r.amount))
       ELSE /\ pc' = [pc EXCEPT ![p] = "debit"]
            /\ UNCHANGED resp
    /\ UNCHANGED <<Config, Ledger, Redis>>

\* part_000:46-55: the probe or db.Begin() errors.
ProbeError(p) ==
    /\ pc[p] = "handler" /\ req[p].valid /\ req[p].key # NoKey
    /\ Return(p, TextError(500, "Database Error"))
    /\ UNCHANGED <<Config, Ledger, Redis>>

\* part_000:59-69: the conditional debit.  The UPDATE waits for the row lock of an open
\* transaction and then evaluates its WHERE on the committed row; no row matched is 422.
Debit(p) ==
    /\ pc[p] = "debit"
    /\ ~RowLockedByOther(p, req[p].from_id)
    /\ IF DebitMatches(p)
       THEN /\ txWrites' = [txWrites EXCEPT ![p] =
                  WriteRow(p, req[p].from_id,
                           RoundCents(RowValue(p, req[p].from_id) - req[p].amount))]
            /\ pc' = [pc EXCEPT ![p] = "credit"]
            /\ UNCHANGED <<resp, balance, transactions, txRows>>
       ELSE Abort(p, 422, "Insufficient Funds")
    /\ UNCHANGED <<Config, Redis>>

\* part_000:60-63: the debit statement errors.
DebitError(p) ==
    /\ pc[p] = "debit"
    /\ Abort(p, 500, "Transaction Failed")
    /\ UNCHANGED <<Config, Redis>>

\* part_000:71-74: the unconditional credit; an id without a row updates nothing.
Credit(p) ==
    /\ pc[p] = "credit"
    /\ ~RowLockedByOther(p, req[p].to_id)
    /\ txWrites' = [txWrites EXCEPT ![p] =
          IF req[p].to_id \in Accounts
          THEN WriteRow(p, req[p].to_id,
                        RoundCents(RowValue(p, req[p].to_id) + req[p].amount))
          ELSE @]
    /\ pc' = [pc EXCEPT ![p] = "insert"]
    /\ UNCHANGED <<Config, resp, balance, transactions, txRows, Redis>>

\* part_000:71-74: the credit statement errors.
CreditError(p) ==
    /\ pc[p] = "credit"
    /\ Abort(p, 500, "Transaction Failed")
    /\ UNCHANGED <<Config, Redis>>

\* p waits in its credit for a row that q's open transaction wrote.
Waits(p, q) ==
    /\ pc[p] = "credit" /\ q # p
    /\ \E w \in txWrites[q] : w.id = req[p].to_id

RECURSIVE WaitClosure(_)
WaitClosure(S) ==
    LET T == S \cup {q \in Procs : \E x \in S : Waits(x, q)}
    IN IF T = S THEN S ELSE WaitClosure(T)

\* Two transactions each wait for the other's row: Postgres aborts one with a
\* deadlock error, which the credit reports as 500 (part_000:71-74).
Deadlock(p) ==
    /\ pc[p] = "credit"
    /\ \E q \in Procs : Waits(p, q) /\ p \in WaitClosure({q})
    /\ Abort(p, 500, "Transaction Failed")
    /\ UNCHANGED <<Config, Redis>>

\* part_000:76-79 with db.go:28: the record insert.  It waits for an open transaction
\* that inserted the same key; a committed row with the key is a uniqueness error.
Insert(p) ==
    /\ pc[p] = "insert"
    /\ ~KeyPendingByOther(p, req[p].key)
    /\ IF UniqueViolation(req[p].key)
       THEN Abort(p, 500, "Failed to record transaction")
       ELSE /\ txRows' = [txRows EXCEPT ![p] = {NewRow(p)}]
            /\ pc' = [pc EXCEPT ![p] = "commit"]
            /\ UNCHANGED <<resp, balance, transactions, txWrites>>
    /\ UNCHANGED <<Config, Redis>>

\* part_000:76-79: the insert errors for another reason.
InsertError(p) ==
    /\ pc[p] = "insert"
    /\ Abort(p, 500, "Failed to record transaction")
    /\ UNCHANGED <<Config, Redis>>

\* The writes of p's transaction become the committed state.
Apply(p) ==
    /\ balance' = Committed(p)
    /\ transactions' = transactions \cup txRows[p]
    /\ Rollback(p)

\* The chaos branch testing the request header alone, CHAOS_MODE not consulted.
CommitIgnoresToggle(p) ==
    /\ pc[p] = "commit"
    /\ Apply(p)
    /\ IF req[p].chaos
       THEN Panic(p)
       ELSE Return(p, SuccessResponse(req[p].amount))
    /\ UNCHANGED <<Config, Redis>>

\* part_000:81-97: tx.Commit(), then the chaos panic or the success response.
Commit(p) ==
    /\ pc[p] = "commit"
    /\ Apply(p)
    /\ IF chaosEnabled /\ req[p].chaos
       THEN Panic(p)
       ELSE Return(p, SuccessResponse(req[p].amount))
    /\ UNCHANGED <<Config, Redis>>

\* part_000:81-84: tx.Commit() returns an error; the server has either dropped the
\* transaction or committed it before the connection failed.
CommitError(p) ==
    /\ pc[p] = "commit"
    /\ Return(p, TextError(500, "Commit Failed"))
    /\ \/ Apply(p)
       \/ Rollback(p) /\ UNCHANGED <<balance, transactions>>
    /\ UNCHANGED <<Config, Redis>>

\* The process serving p dies inside the lock or the transaction: no deferred call
\* runs, no response is sent, Postgres rolls the open transaction back.
Crash(p) ==
    /\ \/ pc[p] \in {"debit", "credit", "insert", "commit", "cacheSet", "release"}
       \/ pc[p] = "handler" /\ HasLock(p)
    /\ pc' = [pc EXCEPT ![p] = "crashed"]
    /\ Rollback(p)
    /\ UNCHANGED <<Config, resp, balance, transactions, Redis>>

\* ------------------------------------------------------- specifications
\* The steps of the requests when nothing outside the code fails.
Steps ==
    \/ \E p \in Procs : MwPassThrough(p)
    \/ \E p \in Procs : MwCacheGet(p)
    \/ \E p \in Procs : MwSetNX(p)
    \/ \E p \in Procs : MwCacheSet(p)
    \/ \E p \in Procs : MwRelease(p)
    \/ \E p \in Procs : HandlerReject(p)
    \/ \E p \in Procs : Probe(p)
    \/ \E p \in Procs : Debit(p)
    \/ \E p \in Procs : Credit(p)
    \/ \E p \in Procs : Deadlock(p)
    \/ \E p \in Procs : Insert(p)
    \/ \E p \in Procs : Commit(p)

\* A Redis or Postgres call fails, the process dies, or a TTL runs out.
Faults ==
    \/ \E p \in Procs : MwCacheGetError(p)
    \/ \E p \in Procs : MwSetNXError(p)
    \/ \E p \in Procs : MwCacheSetError(p)
    \/ \E p \in Procs : MwReleaseError(p)
    \/ \E p \in Procs : ProbeError(p)
    \/ \E p \in Procs : DebitError(p)
    \/ \E p \in Procs : CreditError(p)
    \/ \E p \in Procs : InsertError(p)
    \/ \E p \in Procs : CommitError(p)
    \/ \E p \in Procs : Crash(p)
    \/ \E k \in Keys : LockExpire(k)
    \/ \E k \in Keys : CacheExpire(k)

Next == Steps \/ Faults

Spec == Init /\ [][Next]_vars

\* The stress run: same key and payload, no failure, no TTL running out.
NextStress ==
    \/ \E p \in Procs : MwCacheGet(p)
    \/ \E p \in Procs : MwSetNX(p)
    \/ \E p \in Procs : MwCacheSet(p)
    \/ \E p \in Procs : MwRelease(p)
    \/ \E p \in Procs : Probe(p)
    \/ \E p \in Procs : Debit(p)
    \/ \E p \in Procs : Credit(p)
    \/ \E p \in Procs : Insert(p)
    \/ \E p \in Procs : Commit(p)

SpecStress == InitStress /\ [][NextStress]_vars

\* The server of main.go when no Postgres call fails.
NextWired ==
    \/ \E p \in Procs : HandlerReject(p)
    \/ \E p \in Procs : Probe(p)
    \/ \E p \in Procs : Debit(p)
    \/ \E p \in Procs : Credit(p)
    \/ \E p \in Procs : Deadlock(p)
    \/ \E p \in Procs : Insert(p)
    \/ \E p \in Procs : Commit(p)

SpecWired == InitWired /\ [][NextWired]_vars

\* The handler behind the middleware, the deployment the stress tester expects:
\* any requests; Postgres calls may fail; Redis answers, no TTL runs out and no process
\* dies.
InitWrapped ==
    /\ Init
    /\ useMiddleware = TRUE

NextWrapped ==
    \/ \E p \in Procs : MwPassThrough(p)
    \/ \E p \in Procs : MwCacheGet(p)
    \/ \E p \in Procs : MwSetNX(p)
    \/ \E p \in Procs : MwCacheSet(p)
    \/ \E p \in Procs : MwRelease(p)
    \/ \E p \in Procs : HandlerReject(p)
    \/ \E p \in Procs : Probe(p)
    \/ \E p \in Procs : Debit(p)
    \/ \E p \in Procs : Credit(p)
    \/ \E p \in Procs : Deadlock(p)
    \/ \E p \in Procs : Insert(p)
    \/ \E p \in Procs : Commit(p)
    \/ \E p \in Procs : ProbeError(p)
    \/ \E p \in Procs : DebitError(p)
    \/ \E p \in Procs : CreditError(p)
    \/ \E p \in Procs : InsertError(p)
    \/ \E p \in Procs : CommitError(p)

SpecWrapped == InitWrapped /\ [][NextWrapped]_vars

\* The wrapped handler under every failure, with a lock TTL that outlasts its holder.
NextTimely ==
    \/ Steps
    \/ \E p \in Procs : MwCacheGetError(p)
    \/ \E p \in Procs : MwSetNXError(p)
    \/ \E p \in Procs : MwCacheSetError(p)
    \/ \E p \in Procs : MwReleaseError(p)
    \/ \E p \in Procs : ProbeError(p)
    \/ \E p \in Procs : DebitError(p)
    \/ \E p \in Procs : CreditError(p)
    \/ \E p \in Procs : InsertError(p)
    \/ \E p \in Procs : CommitError(p)
    \/ \E p \in Procs : Crash(p)
    \/ \E k \in Keys : LockExpireIdle(k)
    \/ \E k \in Keys : CacheExpire(k)

SpecTimely == InitWrapped /\ [][NextTimely]_vars

\* One step of invocation p when nothing outside the code fails.
ProcStep(p) ==
    \/ MwPassThrough(p)
    \/ MwCacheGet(p)
    \/ MwSetNX(p)
    \/ MwCacheSet(p)
    \/ MwRelease(p)
    \/ HandlerReject(p)
    \/ Probe(p)
    \/ Debit(p)
    \/ Credit(p)
    \/ Deadlock(p)
    \/ Insert(p)
    \/ Commit(p)

\* The wrapped handler whose processes may die and whose lock entries run out.
NextLive ==
    \/ Steps
    \/ \E p \in Procs : Crash(p)
    \/ \E k \in Keys : LockExpire(k)

\* Redis removes an entry set with LockTimeout (idempotency.go:90) once the time is
\* up, and the Go scheduler runs every goroutine that can take a step.
Fairness ==
    /\ \A k \in Keys : WF_vars(LockExpire(k))
    /\ \A p \in 1..NumReq : WF_vars(ProcStep(p))

SpecLive == InitWrapped /\ [][NextLive]_vars /\ Fairness

\* --------------------------------------------------------------- claims
RECURSIVE SumOver(_, _)
SumOver(f, S) ==
    IF S = {} THEN 0
    ELSE LET a == CHOOSE x \in S : TRUE IN f[a] + SumOver(f, S \ {a})

TotalBalance == SumOver(balance, Accounts)

Transfers(p) == req[p].valid /\ req[p].key # NoKey
Done(p) == pc[p] = "done"
AllDone == \A p \in Procs : Done(p)

\* No two rows of the transactions table have the same key.
OneRowPerKey == \A r1, r2 \in transactions : r1.key = r2.key => r1 = r2
\* A step that changes a balance adds exactly one row, the first of its key.
BalanceOnlyWithFirstRow ==
    balance' # balance =>
        \E r \in transactions' \ transactions :
            /\ transactions' = transactions \cup {r}
            /\ \A r2 \in transactions : r2.key # r.key

\* C1: at most one ledger transaction per idempotency key ever commits, with the lock,
\* without it, and when lock or cache entries are lost: the transactions table never
\* holds two rows with one key, and the balances change only in a step that adds the
\* first row of a key.
C1_AtMostOnce == []OneRowPerKey /\ [][BalanceOnlyWithFirstRow]_vars

\* C1 witness: two requests raced with one key, one committed and the other was
\* turned away at the record insert.
C1_Witness ==
    \E p, q \in Procs :
        /\ p # q /\ req[p].key = req[q].key
        /\ Done(p) /\ Done(q)
        /\ resp[p].status = 200 /\ ~resp[p].dbhit /\ ~resp[p].hit
        /\ resp[q].msg = "Failed to record transaction"
        /\ \E r \in transactions : r.key = req[p].key /\ r.by = p

\* C2: every first-time success moves exactly the amount: each account's balance
\* changes by the amount credited to it less the amount debited from it, and the total
\* of all balances is unchanged.
C2_Conservation ==
    [][\A p \in Procs :
         (pc[p] = "commit" /\ resp'[p].status = 200) =>
            /\ TotalBalance' = TotalBalance
            /\ \A a \in Accounts :
                 balance'[a] = balance[a]
                                 - (IF a = req[p].from_id THEN req[p].amount ELSE 0)
                                 + (IF a = req[p].to_id THEN req[p].amount ELSE 0)]_vars

\* C3: when every transfer has amount > 0, no committed balance is ever negative.
C3_NoNegativeBalance ==
    (\A p \in Procs : Transfers(p) => req[p].amount > 0)
        => \A a \in Accounts : balance[a] >= 0

\* C3 witness: two transfers with different keys debit the same sender, which can pay
\* one of them: one succeeded, the other matched no row and was refused.
C3_Witness ==
    \E p, q \in Procs :
        /\ req[p].key # req[q].key /\ req[p].from_id = req[q].from_id
        /\ \A x \in Procs : Transfers(x) => req[x].amount > 0
        /\ resp[p].status = 200 /\ resp[q].status = 422
        /\ balance[req[p].from_id] = 0

\* C4: a step of a request whose amount is zero or negative changes no balance.
C4_NonPositiveAmountNoEffect ==
    [][\A p \in Procs :
         (req[p].amount <= 0 /\ pc'[p] # pc[p]) => balance' = balance]_vars

\* A 200 that is neither a cache hit nor a recovered answer.
FirstSuccess(p) == resp[p].status = 200 /\ ~resp[p].hit /\ ~resp[p].dbhit
\* What a duplicate may get: a cache hit, a recovered 200 or a 409.
Duplicate(p) ==
    \/ resp[p].status = 200 /\ resp[p].hit
    \/ resp[p].status = 200 /\ resp[p].dbhit
    \/ resp[p].status = 409

\* C5: of the stress run's requests exactly one is answered with a first success; the
\* others get a cache hit, a recovered 200 or a 409, and one row at most is written.
C5_ResponseEquivalence ==
    /\ Cardinality({p \in Procs : FirstSuccess(p)}) <= 1
    /\ Cardinality(transactions) <= 1
    /\ \A p \in Procs : Done(p) => FirstSuccess(p) \/ Duplicate(p)
    /\ AllDone => Cardinality({p \in Procs : FirstSuccess(p)}) = 1

\* C5 witness: the run is over with a first success, a conflict and a recovered 200.
C5_Witness ==
    /\ AllDone
    /\ \E p, q, r \in Procs :
         /\ FirstSuccess(p)
         /\ resp[q].status = 409
         /\ resp[r].status = 200 /\ resp[r].dbhit

\* executeRequest's classification of the responses (stress_tester.go:210-221).
CacheHitCount == Cardinality({p \in Procs : resp[p].hit})
SuccessCount == Cardinality({p \in Procs : ~resp[p].hit /\ resp[p].status = 200})
ConflictCount ==
    Cardinality({p \in Procs : ~resp[p].hit /\ resp[p].status = 409})
ErrorCount ==
    Cardinality({p \in Procs : ~resp[p].hit /\ resp[p].status \notin {200, 409}})

\* C6: when the stress run is over the tester's verdict is a pass: with its own
\* classification SuccessCount = 1, CacheHitCount + ConflictCount = N - 1, ErrorCount = 0.
C6_StressVerdict ==
    AllDone =>
        /\ SuccessCount = 1
        /\ CacheHitCount + ConflictCount = Cardinality(Procs) - 1
        /\ ErrorCount = 0

\* C7: an insert that violates the uniqueness of idempotency_key is not answered
\* with 500.
C7_RaceLostNotAnError ==
    [][\A p \in Procs :
         (/\ pc[p] = "insert" /\ pc'[p] \notin {"insert", "crashed"}
          /\ \E r \in transactions : r.key = req[p].key)
            => resp'[p].status # 500]_vars

\* C8: once a transfer is committed and its invocation was cut off by the chaos
\* panic, a probe for the same key answers 200 "Transfer Complete (Recovered)" with
\* the recovery marker and the committed amount, and changes nothing in the ledger.
C8_CrashRecovery ==
    [][\A p \in Procs : \A r \in transactions :
         (Probe(p) /\ r.key = req[p].key /\ resp[r.by] = Dropped) =>
            /\ resp'[p] = [status |-> 200, hit |-> FALSE, dbhit |-> TRUE,
                           msg |-> "Transfer Complete (Recovered)", amount |-> r.amount]
            /\ UNCHANGED <<balance, transactions>>]_vars

\* C8 witness: a retry of a key whose first invocation panicked after commit has got
\* the recovered answer.
C8_Witness ==
    \E p, q \in Procs : \E r \in transactions :
        /\ p # q /\ r.by = p /\ r.key = req[q].key
        /\ resp[p] = Dropped
        /\ resp[q].dbhit /\ resp[q].amount = r.amount /\ Done(q)

\* C9: a debit for more than the sender has is answered 422 and changes no balance, no
\* transactions row and no cache entry, and the invocation goes on to no cache write.
C9_InsufficientFunds ==
    [][\A p \in Procs :
         (/\ Debit(p)
          /\ req[p].from_id \in Accounts
          /\ req[p].amount > balance[req[p].from_id]) =>
            /\ resp'[p].status = 422
            /\ pc'[p] \in {"release", "done"}
            /\ txWrites'[p] = {} /\ txRows'[p] = {}
            /\ UNCHANGED <<balance, transactions, cache>>]_vars

\* C9 witness: a key was refused for insufficient funds and a later request with the
\* same key reached the ledger again.
C9_Witness ==
    \E p, q \in Procs :
        /\ p # q /\ req[p].key = req[q].key
        /\ Done(p) /\ resp[p].status = 422
        /\ pc[q] = "debit"
        /\ ~cache[req[p].key].present
        /\ balance = [a \in Accounts |-> Funds]
        /\ transactions = {}

\* C10: a SetNX on a held lock answers 409 at once, leaves the lock entry and the
\* ledger as they are; a SetNX that errors answers 500 and never reaches the ledger.
C10_BusyKey ==
    [][\A p \in Procs :
         /\ (MwSetNX(p) /\ lock[req[p].key] # 0) =>
               /\ resp'[p].status = 409 /\ pc'[p] = "done"
               /\ UNCHANGED <<lock, balance, transactions, txWrites, txRows>>
         /\ MwSetNXError(p) =>
               /\ resp'[p].status = 500 /\ pc'[p] = "done"
               /\ UNCHANGED <<lock, balance, transactions, txWrites, txRows>>]_vars

\* C10 witness: one invocation is inside the lock and another got 409 for the key.
C10_Witness ==
    \E p, q \in Procs :
        /\ p # q /\ req[p].key = req[q].key /\ req[p].key \in Keys
        /\ lock[req[p].key] = p /\ pc[p] \in {"handler", "debit", "credit", "insert", "commit"}
        /\ Done(q) /\ resp[q].status = 409

\* C11: a request whose key has a cache entry, once its rdb.Get has read the entry, is
\* answered 200 with the entry's body and the served-from-cache marker, and is finished:
\* that step changes no lock, no cache entry, no balance, no transactions row and no
\* open transaction, and an invocation answered from the cache never takes another step.
C11_CacheHitEffectFree ==
    [][\A p \in Procs :
         /\ (MwCacheGet(p) /\ cache[req[p].key].present) =>
               /\ resp'[p] = [status |-> 200, hit |-> TRUE, dbhit |-> FALSE,
                              msg |-> cache[req[p].key].msg,
                              amount |-> cache[req[p].key].amount]
               /\ pc'[p] = "done"
               /\ UNCHANGED <<lock, cache, balance, transactions, txWrites, txRows>>
         /\ resp[p].hit => (pc[p] = "done" /\ pc'[p] = "done" /\ resp'[p] = resp[p])]_vars

\* C11 witness: a duplicate was answered from the cache while the ledger holds the one
\* row of its key and another invocation holds the lock of that key.
C11_Witness ==
    \E p, q \in Procs :
        /\ p # q /\ req[p].key \in Keys /\ req[q].key = req[p].key
        /\ resp[p].hit /\ resp[p].status = 200 /\ Done(p)
        /\ lock[req[p].key] = q
        /\ Cardinality({r \in transactions : r.key = req[p].key}) = 1

\* C12: only successes are cached: a cache entry appears or changes only in the cache
\* write of an invocation whose handler answered 2xx and is that response's body; an
\* invocation that ended in 400, 409, 422, 500 or a panic never stands before a cache
\* write; so no cached body is a failure.
C12_OnlySuccessCached ==
    /\ [](\A p \in Procs :
            (resp[p].status \in {400, 409, 422, 500} \/ resp[p] = Dropped)
                => pc[p] # "cacheSet")
    /\ [](\A k \in Keys :
            cache[k].present
                => cache[k].msg \in {"Transfer Complete", "Transfer Complete (Recovered)"})
    /\ [][\A k \in Keys :
            (cache'[k] # cache[k] /\ cache'[k].present) =>
                \E p \in Procs :
                    /\ pc[p] = "cacheSet" /\ req[p].key = k
                    /\ resp[p].status >= 200 /\ resp[p].status < 300
                    /\ cache'[k] = [present |-> TRUE, msg |-> resp[p].msg,
                                    amount |-> resp[p].amount]]_vars

\* C12 witness: a key was answered 500 inside the lock, nothing was cached for it, and
\* a retry with the key then made the transfer and had its 200 cached.
C12_Witness ==
    \E p, q \in Procs :
        /\ p # q /\ req[p].key = req[q].key /\ req[p].key \in Keys
        /\ Done(p) /\ resp[p].status = 500 /\ resp[p].msg = "Transaction Failed"
        /\ Done(q) /\ FirstSuccess(q)
        /\ cache[req[q].key] = Body(resp[q])

\* C13: for one idempotency key every cache-hit response carries the status and the
\* body of the first-success response of that key.
C13_ByteIdenticalDuplicates ==
    \A p, q \in Procs :
        (req[p].key = req[q].key /\ resp[p].hit /\ FirstSuccess(q)) =>
            /\ resp[p].status = resp[q].status
            /\ resp[p].msg = resp[q].msg
            /\ resp[p].amount = resp[q].amount

\* A request the handler must refuse: no Idempotency-Key, or a body that does not decode.
ClientError(p) == ~req[p].valid \/ req[p].key = NoKey

\* C14: a request without an Idempotency-Key or with a body that does not decode is
\* answered 400, and no step of it changes a balance or a transactions row; a request
\* without a key never stands at the lock or the cache and changes neither.
C14_ClientErrorsNonMutating ==
    /\ [](\A p \in Procs : (ClientError(p) /\ Done(p)) => resp[p].status = 400)
    /\ [](\A p \in Procs :
            req[p].key = NoKey => pc[p] \notin {"setnx", "cacheSet", "release"})
    /\ [][\A p \in Procs :
            (ClientError(p) /\ pc'[p] # pc[p]) =>
                /\ UNCHANGED <<balance, transactions>>
                /\ req[p].key = NoKey => UNCHANGED <<lock, cache>>]_vars

\* C15: no two invocations that debit the same sender account are inside the
\* lock-protected section at the same time, whatever their idempotency keys.
C15_PerAccountSerialization ==
    \A p, q \in Procs :
        (/\ p # q /\ Transfers(p) /\ Transfers(q)
         /\ req[p].from_id = req[q].from_id) =>
            ~(InsideLock(p) /\ InsideLock(q))

\* C16: an invocation that acquired the lock of its key leaves the middleware only
\* through its deferred Del, which removes the entry, whatever the handler answered
\* (200, 400, 422, 500) or when it panicked after the commit; hence, while no TTL runs
\* out, Redis answers and no process dies, a lock entry exists only while the
\* invocation that created it is between its SetNX and its Del.
C16_GuaranteedRelease ==
    /\ [](\A k \in Keys :
            lock[k] # 0 => (req[lock[k]].key = k /\ InsideLock(lock[k])))
    /\ [][\A p \in Procs :
            (InsideLock(p) /\ pc'[p] \notin {"handler", "debit", "credit", "insert",
                                            "commit", "cacheSet", "release"}) =>
                /\ pc[p] = "release" /\ pc'[p] = "done"
                /\ lock[req[p].key] = p /\ lock'[req[p].key] = 0]_vars

\* C16 witness: an invocation committed, panicked in chaos mode and is gone, and the
\* lock of its key is free.
C16_Witness ==
    \E p \in Procs : \E r \in transactions :
        /\ HasLock(p) /\ r.by = p
        /\ resp[p] = Dropped /\ Done(p)
        /\ lock[req[p].key] = 0

\* The transfer of p's key is committed: the transactions table has a row with the key.
KeyCommitted(p) == \E r \in transactions : r.key = req[p].key

\* C17: a request for a key whose transfer is committed and whose cache entry is
\* absent is not answered 409 and does not take the lock: the step it takes at the
\* lock acquisition neither creates a lock entry nor answers 409.
C17_ProbeBeforeLock ==
    [][\A p \in Procs :
         (/\ pc[p] = "setnx" /\ pc'[p] # "setnx"
          /\ KeyCommitted(p) /\ ~cache[req[p].key].present) =>
            /\ resp'[p].status # 409
            /\ lock' = lock]_vars

\* C18: SetNX creates the lock entry only when it is absent, so while no lock entry
\* runs out under a running holder, at most one invocation per idempotency key is
\* between its successful SetNX and its Del.
C18_MutualExclusion ==
    /\ [](\A p, q \in Procs :
            (p # q /\ req[p].key = req[q].key) => ~(InsideLock(p) /\ InsideLock(q)))
    /\ [][\A p \in Procs :
            (pc[p] = "setnx" /\ pc'[p] = "handler") =>
                (lock[req[p].key] = 0 /\ lock'[req[p].key] = p)]_vars

\* C18 witness: the holder of a key died inside the lock, its entry ran out, and a
\* second invocation with the key is now alone inside the lock.
C18_Witness ==
    \E p, q \in Procs :
        /\ p # q /\ req[p].key = req[q].key /\ req[p].key \in Keys
        /\ pc[q] = "crashed"
        /\ lock[req[p].key] = p /\ InsideLock(p)

\* C19: a lock entry is removed only by its TTL or by the invocation that created it:
\* the Del of an invocation never removes an entry another invocation created.
C19_ReleaseByHolderOnly ==
    [][\A p \in Procs : \A k \in Keys :
         (MwRelease(p) /\ lock[k] # 0 /\ lock'[k] = 0) => lock[k] = p]_vars

RECURSIVE SumAmounts(_)
SumAmounts(S) ==
    IF S = {} THEN 0
    ELSE LET r == CHOOSE x \in S : TRUE IN r.amount + SumAmounts(S \ {r})

\* The balance the transactions table accounts for: the opening balance, plus the
\* amounts of the rows crediting the account, less those of the rows debiting it.
LedgerBalance(a) ==
    Funds + SumAmounts({r \in transactions : r.to_id = a})
          - SumAmounts({r \in transactions : r.from_id = a})

\* C20: the debit, the credit and the record insert commit together or not at all: the
\* committed state changes only in a commit, which adds the one row of the transaction
\* together with its balance writes, and a refused or failed statement leaves nothing
\* behind; and in every committed state each account's balance is its opening balance
\* plus the amounts of the rows crediting it less the amounts of the rows debiting it.
C20_AllOrNothing ==
    /\ [](\A a \in Accounts : balance[a] = LedgerBalance(a))
    /\ [][\A p \in Procs :
            /\ (pc[p] \in {"debit", "credit", "insert"} /\ resp'[p].status \in {422, 500}) =>
                  /\ UNCHANGED <<balance, transactions>>
                  /\ txWrites'[p] = {} /\ txRows'[p] = {}
            /\ (pc[p] # "commit" /\ pc'[p] # pc[p]) => UNCHANGED <<balance, transactions>>
            /\ (pc[p] = "commit" /\ pc'[p] # pc[p]) =>
                  \/ UNCHANGED <<balance, transactions>>
                  \/ /\ transactions' = transactions \cup txRows[p]
                     /\ txRows[p] # {}
                     /\ balance' = Committed(p)]_vars

\* The invocation died inside the lock and the entry it created is still there.
DeadHolder(p, k) == pc[p] = "crashed" /\ lock[k] = p

\* C21: when the holder of the lock of key k dies without releasing, the entry it
\* created goes away (the TTL), and a retry whose SetNX then finds no entry is not
\* answered 409: it takes the lock and enters the handler, where a committed row of
\* the key gives the recovered 200 and no row leads on to a fresh transaction.
C21_TTLBoundsUnavailability ==
    /\ \A k \in Keys : \A p \in 1..NumReq : DeadHolder(p, k) ~> ~DeadHolder(p, k)
    /\ [][\A p \in Procs :
            /\ (MwSetNX(p) /\ lock[req[p].key] = 0) =>
                  /\ pc'[p] = "handler" /\ lock'[req[p].key] = p
                  /\ resp'[p].status # 409
            /\ (Probe(p) /\ HasLock(p)) =>
                  IF KeyCommitted(p)
                  THEN resp'[p].status = 200 /\ resp'[p].dbhit /\ pc'[p] = "cacheSet"
                  ELSE pc'[p] = "debit"]_vars

\* C21 witness: the holder of a key died after its commit, its lock entry ran out, and
\* a retry with the key took the lock and was answered the recovered 200.
C21_Witness ==
    \E p, q \in Procs : \E r \in transactions :
        /\ p # q /\ req[p].key = req[q].key /\ r.key = req[p].key /\ r.by = q
        /\ pc[q] = "crashed"
        /\ Done(p) /\ resp[p].status = 200 /\ resp[p].dbhit

\* C22: on a successful invocation the cache entry of the key is written before the
\* lock of the key is released: the Del of an invocation whose handler answered 2xx
\* runs with the entry present, and once such an invocation has left the middleware
\* the cache holds an entry for its key (no cache TTL elapsing, no cache write failing).
C22_CacheBeforeRelease ==
    /\ [](\A p \in Procs :
            (/\ HasLock(p) /\ pc[p] \in {"release", "done"}
             /\ resp[p].status >= 200 /\ resp[p].status < 300) =>
                cache[req[p].key].present)
    /\ [][\A p \in Procs :
            (MwRelease(p) /\ resp[p].status >= 200 /\ resp[p].status < 300) =>
                (cache[req[p].key].present /\ cache'[req[p].key] = cache[req[p].key])]_vars

\* C22 witness: a transfer succeeded, its invocation released the lock and is gone,
\* and the cache holds the body it was answered.
C22_Witness ==
    \E p \in Procs :
        /\ HasLock(p) /\ Done(p) /\ FirstSuccess(p)
        /\ lock[req[p].key] = 0
        /\ cache[req[p].key] = Body(resp[p])

\* C23: the deliberate abort happens only with CHAOS_MODE on and the X-Simulate-Chaos
\* header, and only in the step that has committed the transaction: the connection of
\* an invocation is dropped by a panic only then, with the row of the transfer
\* committed in that step; with the toggle off the commit of a request with the header
\* answers the ordinary 200, and no invocation that was answered 400, 422 or 500 is
\* aborted afterwards.
C23_ChaosGatedPostCommit ==
    /\ [](~chaosEnabled => \A p \in Procs : resp[p] # Dropped)
    /\ [][\A p \in Procs :
            /\ (resp[p] # Dropped /\ resp'[p] = Dropped) =>
                  /\ chaosEnabled /\ req[p].chaos
                  /\ pc[p] = "commit" /\ txRows[p] # {}
                  /\ transactions' = transactions \cup txRows[p]
                  /\ balance' = Committed(p)
            /\ (Commit(p) /\ ~chaosEnabled) =>
                  resp'[p] = [status |-> 200, hit |-> FALSE, dbhit |-> FALSE,
                              msg |-> "Transfer Complete", amount |-> req[p].amount]
            /\ resp[p].status \in {400, 422, 500} => resp'[p] = resp[p]]_vars

\* C23 witness: with the toggle off a request carrying the chaos header has committed
\* and been answered the ordinary success; nothing was dropped.
C23_Witness ==
    \E p \in Procs : \E r \in transactions :
        /\ ~chaosEnabled /\ req[p].chaos
        /\ r.by = p /\ Done(p)
        /\ resp[p] = SuccessResponse(req[p].amount)

\* C24: in the wrapped handler, whenever the response cache holds an entry for key k, a
\* committed transactions row with key k exists.
C24_CacheImpliesRecord ==
    useMiddleware =>
        \A k \in Keys : cache[k].present => \E r \in transactions : r.key = k

\* C24 witness: the first invocation of a key committed and panicked, so nothing was
\* cached; the retry was answered from the ledger and its body is now the cache entry.
C24_Witness ==
    \E p, q \in Procs : \E r \in transactions :
        /\ useMiddleware /\ p # q /\ req[p].key = req[q].key /\ req[p].key \in Keys
        /\ r.key = req[p].key /\ r.by = p /\ resp[p] = Dropped
        /\ cache[req[q].key] = Body(resp[q]) /\ resp[q].dbhit

\* Request p names another sender, receiver or amount than the request that row r
\* was committed for.
DifferentPayload(p, r) ==
    \/ req[p].from_id # req[r.by].from_id
    \/ req[p].to_id # req[r.by].to_id
    \/ req[p].amount # req[r.by].amount

\* C25: a request that reuses the key of a transfer that is committed and was answered
\* 200, with another payload, and that has not yet passed the probe, is answered 200
\* with the stored amount of that transfer, and the step that answers it changes no
\* balance and no transactions row.
C25_KeyReuseDifferentPayload ==
    [][\A p \in Procs : \A r \in transactions :
         (/\ r.key = req[p].key /\ r.by # p /\ req[p].valid
          /\ resp[r.by].status = 200 /\ DifferentPayload(p, r)
          /\ pc[p] \in {"mw", "setnx", "handler"}
          /\ resp'[p] # resp[p]) =>
            /\ resp'[p].status = 200
            /\ resp'[p].amount = r.amount
            /\ UNCHANGED <<balance, transactions>>]_vars

====
